---- MODULE Spec2Model ----
(***************************************************************************)
(* Chat application: the conversation store (src/src/store/store.ts), the  *)
(* local-first sync adapter (src/src/store/hooks.ts) and the submission    *)
(* handler with its streamed completion reader, in its two route variants  *)
(* (src/src/routes/index.tsx and src/unnamed/part_004).                    *)
(* Beside it, the MCP endpoint (src/src/routes/api/mcp.ts) and the ebook   *)
(* store (src/src/store/ebookStore.ts), each with models of its own.       *)
(*                                                                         *)
(* Encoding.  A string is a sequence of one-character strings; a string    *)
(* literal of the source that is never taken apart is a one-element        *)
(* sequence holding the literal.  Conversation ids are integers: locally   *)
(* generated ids (uuidv4) are 1, 2, ..., remote-assigned ids are           *)
(* RemoteBase + k, and the JavaScript value null is 0.  A Conversation     *)
(* object used where an id string is expected (index.tsx:172) is           *)
(* ObjBase + its id: a value that is === to no id string.                  *)
(***************************************************************************)
EXTENDS Integers, Sequences, FiniteSets, TLC

VARIABLES
    route,              \* which route module is deployed: "index" or "part_004"
    isConvexAvailable,  \* hooks.ts:11
    store,              \* store.ts:33, the State record
    pendingMessage,     \* index.tsx:50, <<>> for null, <<m>> for a message
    sub,                \* the handleSubmit invocation in flight (its locals)
    calls,              \* remote mutations in flight
    remoteConvs,        \* the remote backend's conversation list
    listDirty,          \* the list query has a result the effect has not seen
    now,                \* Date.now()
    nextLocal,          \* number of uuidv4() ids generated
    nextRemote,         \* number of ids the remote backend assigned
    delivered,          \* what the reader has returned to the submission
    callLog,            \* the calls of store actions made by the store model
    ebookStore          \* ebookStore.ts:38, the EbookState record

vars == <<route, isConvexAvailable, store, pendingMessage, sub, calls,
          remoteConvs, listDirty, now, nextLocal, nextRemote, delivered,
          callLog, ebookStore>>

----------------------------------------------------------------------------
(* Bounds *)

MaxConvs == 1       \* conversations created locally in one run
MaxSubmits == 1     \* accepted submissions in one run
MaxChunks == 1      \* chunks one completion stream delivers before it ends
MaxStreamChunks == 3 \* the same, in the stream model
MaxStoreConvs == 2  \* conversations added in the store model
MaxLog == 3         \* calls of store actions logged in the store model
MaxCalls == 1       \* remote mutations in flight at once, besides a submission's
MaxStoreMessages == 1 \* messages of one conversation in the action model
MaxTextLen == 7     \* characters of an input text in the title model
MaxPrompts == 2     \* prompts in the store at once in the prompt model
MaxPromptTime == 2  \* the last reading of Date.now() in the prompt model
MaxTokenLen == 2    \* characters of an API token in the MCP model
MaxEbookTime == 1   \* the last reading of Date.now() in the ebook models
MaxChapters == 2    \* chapters of an ebook in the ebook models
MaxSavedEbooks == 2 \* saved ebooks in the library model
MaxCreates == 3     \* conversations created in the creation model

----------------------------------------------------------------------------
(* Encoding of ids *)

Null == 0
RemoteBase == 100
ObjBase == 200

LocalId(k) == k
RemoteId(k) == RemoteBase + k
ObjRef(conversation) == ObjBase + conversation.id

\* a value that may be undefined or null: <<>> when it is, <<v>> when it is v
Absent == <<>>
Some(v) == <<v>>

----------------------------------------------------------------------------
(* Strings *)

\* a character that String.prototype.trim strips and /\s/ matches
IsSpace(c) == c \in {" ", "\t", "\n"}

RECURSIVE trimStart(_)
trimStart(s) ==
    IF s = <<>> THEN <<>>
    ELSE IF IsSpace(Head(s)) THEN trimStart(Tail(s)) ELSE s

RECURSIVE trimEnd(_)
trimEnd(s) ==
    IF s = <<>> THEN <<>>
    ELSE IF IsSpace(s[Len(s)]) THEN trimEnd(SubSeq(s, 1, Len(s) - 1)) ELSE s

trim(s) == trimEnd(trimStart(s))

\* s.split(/\s+/): the pieces between maximal runs of whitespace
RECURSIVE splitFrom(_, _, _)
splitFrom(s, cur, inGap) ==
    IF s = <<>> THEN <<cur>>
    ELSE IF IsSpace(Head(s))
         THEN IF inGap THEN splitFrom(Tail(s), cur, TRUE)
                       ELSE <<cur>> \o splitFrom(Tail(s), <<>>, TRUE)
         ELSE splitFrom(Tail(s), Append(cur, Head(s)), FALSE)

splitWhitespace(s) == splitFrom(s, <<>>, FALSE)

RECURSIVE join(_, _)
join(words, sep) ==
    IF words = <<>> THEN <<>>
    ELSE IF Len(words) = 1 THEN words[1]
    ELSE words[1] \o sep \o join(Tail(words), sep)

slice(s, n) == SubSeq(s, 1, IF Len(s) < n THEN Len(s) ELSE n)

createTitleFromInput_ellipsisAtThree(text) ==
    LET words == splitWhitespace(trim(text))
        firstThreeWords == join(slice(words, 3), <<" ">>)
    IN  firstThreeWords \o (IF Len(words) >= 3 THEN <<".", ".", ".">> ELSE <<>>)

createTitleFromInput(text) ==
    LET words == splitWhitespace(trim(text))
        firstThreeWords == join(slice(words, 3), <<" ">>)
    IN  firstThreeWords \o (IF Len(words) > 3 THEN <<".", ".", ".">> ELSE <<>>)

----------------------------------------------------------------------------
(* Messages and conversations *)

NoMessage == [id |-> 0, role |-> "none", content |-> <<>>]

DefaultTitle == <<"New Conversation">>
RenamedTitle == <<"Renamed">>

AIErrorText_index ==
    <<"Sorry, I encountered an error generating a response. Please set the required API keys in your environment variables.">>
ErrorText_part004 == <<"Sorry, I encountered an error processing your request.">>

Conv(id, title, messages) == [id |-> id, title |-> title, messages |-> messages]

Ids(convs) == {convs[i].id : i \in 1..Len(convs)}

----------------------------------------------------------------------------
(* store.ts: the actions, as functions from State to State *)

initialState ==
    [prompts |-> <<>>, conversations |-> <<>>,
     currentConversationId |-> Null, isLoading |-> FALSE]

setConversations_append(state, conversations) ==
    [state EXCEPT !.conversations = @ \o conversations]

setConversations(state, conversations) ==
    [state EXCEPT !.conversations = conversations]

setCurrentConversationId(state, id) ==
    [state EXCEPT !.currentConversationId = id]

addConversation(state, conversation) ==
    [state EXCEPT !.conversations = Append(@, conversation),
                  !.currentConversationId = conversation.id]

updateConversationId_currentOnly(state, oldId, newId) ==
    [state EXCEPT
        !.currentConversationId = IF @ = oldId THEN newId ELSE @]

updateConversationId(state, oldId, newId) ==
    [state EXCEPT
        !.conversations = [i \in 1..Len(@) |->
            IF @[i].id = oldId THEN [@[i] EXCEPT !.id = newId] ELSE @[i]],
        !.currentConversationId = IF @ = oldId THEN newId ELSE @]

updateConversationTitle(state, id, title) ==
    [state EXCEPT
        !.conversations = [i \in 1..Len(@) |->
            IF @[i].id = id THEN [@[i] EXCEPT !.title = title] ELSE @[i]]]

deleteConversation_keepCurrent(state, id) ==
    [state EXCEPT !.conversations = SelectSeq(@, LAMBDA conv : conv.id # id)]

deleteConversation(state, id) ==
    [state EXCEPT
        !.conversations = SelectSeq(@, LAMBDA conv : conv.id # id),
        !.currentConversationId = IF @ = id THEN Null ELSE @]

addMessage_orCurrent(state, conversationId, message) ==
    LET known == \E i \in 1..Len(state.conversations) :
                    state.conversations[i].id = conversationId
        target == IF known THEN conversationId ELSE state.currentConversationId
    IN  [state EXCEPT
            !.conversations = [i \in 1..Len(@) |->
                IF @[i].id = target
                THEN [@[i] EXCEPT !.messages = Append(@, message)]
                ELSE @[i]]]

addMessage_prepend(state, conversationId, message) ==
    [state EXCEPT
        !.conversations = [i \in 1..Len(@) |->
            IF @[i].id = conversationId
            THEN [@[i] EXCEPT !.messages = <<message>> \o @]
            ELSE @[i]]]

addMessage(state, conversationId, message) ==
    [state EXCEPT
        !.conversations = [i \in 1..Len(@) |->
            IF @[i].id = conversationId
            THEN [@[i] EXCEPT !.messages = Append(@, message)]
            ELSE @[i]]]

setLoading(state, loading) == [state EXCEPT !.isLoading = loading]

\* store.ts:61-79; id and created_at are the two readings of Date.now()
createPrompt(state, name, content, id, created_at) ==
    [state EXCEPT
        !.prompts = Append([i \in 1..Len(@) |-> [@[i] EXCEPT !.is_active = FALSE]],
                           [id |-> id, name |-> name, content |-> content,
                            is_active |-> TRUE, created_at |-> created_at])]

deletePrompt(state, id) ==
    [state EXCEPT !.prompts = SelectSeq(@, LAMBDA p : p.id # id)]

setPromptActive_deactivateAll(state, id, shouldActivate) ==
    LET prompts == state.prompts
    IN  [state EXCEPT
            !.prompts = [i \in 1..Len(prompts) |->
                [prompts[i] EXCEPT !.is_active =
                    IF shouldActivate THEN prompts[i].id = id ELSE FALSE]]]

setPromptActive(state, id, shouldActivate) ==
    LET prompts == state.prompts
    IN  [state EXCEPT
            !.prompts = [i \in 1..Len(prompts) |->
                [prompts[i] EXCEPT !.is_active =
                    IF shouldActivate THEN prompts[i].id = id
                    ELSE IF prompts[i].id = id THEN FALSE ELSE @]]]

----------------------------------------------------------------------------
(* The ebook store (src/src/store/ebookStore.ts).  Date.now() readings are *)
(* parameters; an object spread {...a, ...b} is Spread(a, b).              *)

Spread(a, b) ==
    [k \in DOMAIN a \cup DOMAIN b |-> IF k \in DOMAIN b THEN b[k] ELSE a[k]]

\* Array.prototype.findIndex, 1-based, 0 for -1
findIndexOfId(ebooks, id) ==
    LET at == {i \in 1..Len(ebooks) : ebooks[i].id = id}
    IN  IF at = {} THEN 0 ELSE CHOOSE i \in at : \A j \in at : i <= j

\* chapters.map((ch, index) => ({ ...ch, order: index }))
orderByIndex(chapters) ==
    [i \in 1..Len(chapters) |-> [chapters[i] EXCEPT !.order = i - 1]]

ebookInitialState ==
    [currentEbook |-> Absent, savedEbooks |-> <<>>, isEditing |-> FALSE]

createNewEbook(state, metadata, id, createdAt, updatedAt) ==
    [state EXCEPT
        !.currentEbook = Some([id |-> id, metadata |-> metadata, chapters |-> <<>>,
                               createdAt |-> createdAt, updatedAt |-> updatedAt]),
        !.isEditing = TRUE]

loadEbook(state, ebook) ==
    [state EXCEPT !.currentEbook = Some(ebook), !.isEditing = TRUE]

updateMetadata(state, metadata, updatedAt) ==
    IF state.currentEbook = Absent THEN state
    ELSE [state EXCEPT
            !.currentEbook = Some([@[1] EXCEPT
                !.metadata = Spread(@, metadata),
                !.updatedAt = updatedAt])]

addChapter(state, title, id, updatedAt) ==
    IF state.currentEbook = Absent THEN state
    ELSE [state EXCEPT
            !.currentEbook = Some([@[1] EXCEPT
                !.chapters = Append(@, [id |-> id, title |-> title, content |-> <<>>,
                                        order |-> Len(@)]),
                !.updatedAt = updatedAt])]

updateChapter(state, chapterId, updates, updatedAt) ==
    IF state.currentEbook = Absent THEN state
    ELSE [state EXCEPT
            !.currentEbook = Some([@[1] EXCEPT
                !.chapters = [i \in 1..Len(@) |->
                    IF @[i].id = chapterId THEN Spread(@[i], updates) ELSE @[i]],
                !.updatedAt = updatedAt])]

deleteChapter_keepOrder(state, chapterId, updatedAt) ==
    IF state.currentEbook = Absent THEN state
    ELSE [state EXCEPT
            !.currentEbook = Some([@[1] EXCEPT
                !.chapters = SelectSeq(@, LAMBDA ch : ch.id # chapterId),
                !.updatedAt = updatedAt])]

deleteChapter(state, chapterId, updatedAt) ==
    IF state.currentEbook = Absent THEN state
    ELSE [state EXCEPT
            !.currentEbook = Some([@[1] EXCEPT
                !.chapters = orderByIndex(SelectSeq(@, LAMBDA ch : ch.id # chapterId)),
                !.updatedAt = updatedAt])]

reorderChapters(state, chapters, updatedAt) ==
    IF state.currentEbook = Absent THEN state
    ELSE [state EXCEPT
            !.currentEbook = Some([@[1] EXCEPT
                !.chapters = orderByIndex(chapters),
                !.updatedAt = updatedAt])]

saveEbook_append(state) ==
    IF state.currentEbook = Absent THEN state
    ELSE [state EXCEPT !.savedEbooks = Append(@, state.currentEbook[1])]

saveEbook(state) ==
    IF state.currentEbook = Absent THEN state
    ELSE LET existingIndex == findIndexOfId(state.savedEbooks, state.currentEbook[1].id)
         IN  [state EXCEPT
                !.savedEbooks =
                    IF existingIndex >= 1
                    THEN [idx \in 1..Len(@) |->
                            IF idx = existingIndex THEN state.currentEbook[1] ELSE @[idx]]
                    ELSE Append(@, state.currentEbook[1])]

closeEbook(state) ==
    [state EXCEPT !.currentEbook = Absent, !.isEditing = FALSE]

deleteEbook(state, ebookId) ==
    [state EXCEPT
        !.savedEbooks = SelectSeq(@, LAMBDA eb : eb.id # ebookId),
        !.currentEbook = IF @ # Absent /\ @[1].id = ebookId THEN Absent ELSE @]

----------------------------------------------------------------------------
(* The completion stream: one chunk is the text TextDecoder.decode yields   *)
(* for one reader.read() value                                              *)

ChunkA == "{\"type\":\"content_block_delta\",\"delta\":{\"text\":\"A\"}}"
ChunkB == "{\"type\":\"content_block_delta\",\"delta\":{\"text\":\"B\"}}"
ChunkSpace == "{\"type\":\"content_block_delta\",\"delta\":{\"text\":\" \"}}"
ChunkOther == "{\"type\":\"ping\",\"delta\":{\"text\":\"X\"}}"
ChunkNull == "null"
ChunkGarbage == "garbage"

Chunks == {ChunkA, ChunkB, ChunkSpace, ChunkOther, ChunkNull, ChunkGarbage}

\* JSON.parse on the chunks above: threw is a SyntaxError, isObject is false
\* for the value null, whose property reads throw a TypeError
JSONparse(raw) ==
    CASE raw = ChunkA ->
            [threw |-> FALSE, isObject |-> TRUE, type |-> "content_block_delta", text |-> <<"A">>]
      [] raw = ChunkB ->
            [threw |-> FALSE, isObject |-> TRUE, type |-> "content_block_delta", text |-> <<"B">>]
      [] raw = ChunkSpace ->
            [threw |-> FALSE, isObject |-> TRUE, type |-> "content_block_delta", text |-> <<" ">>]
      [] raw = ChunkOther ->
            [threw |-> FALSE, isObject |-> TRUE, type |-> "ping", text |-> <<"X">>]
      [] raw = ChunkNull ->
            [threw |-> FALSE, isObject |-> FALSE, type |-> "", text |-> <<>>]
      [] OTHER ->
            [threw |-> TRUE, isObject |-> FALSE, type |-> "", text |-> <<>>]

\* the text a chunk carries in an event of type content_block_delta
TextOf(raw) ==
    LET json == JSONparse(raw)
    IN  IF ~json.threw /\ json.isObject /\ json.type = "content_block_delta"
        THEN json.text ELSE <<>>

\* what a stream has delivered: the number of chunks, and the text of the
\* content_block_delta events among them in the order they came
NoneDelivered == [chunks |-> 0, text |-> <<>>]

Deliver(d, raw) == [chunks |-> d.chunks + 1, text |-> d.text \o TextOf(raw)]

\* index.tsx:109-120, part_004:135-147: the body of the read loop for one
\* chunk.  changed tells whether setPendingMessage(newMessage) ran.
processChunk_anyType(newMessage, raw) ==
    LET json == JSONparse(raw)
    IN  IF json.threw \/ ~json.isObject
        THEN [newMessage |-> newMessage, changed |-> FALSE]
        ELSE [newMessage |-> [newMessage EXCEPT !.content = @ \o json.text],
              changed |-> TRUE]

processChunk(newMessage, raw) ==
    LET json == JSONparse(raw)
    IN  IF json.threw \/ ~json.isObject
        THEN [newMessage |-> newMessage, changed |-> FALSE]
        ELSE IF json.type = "content_block_delta"
             THEN [newMessage |-> [newMessage EXCEPT !.content = @ \o json.text],
                   changed |-> TRUE]
             ELSE [newMessage |-> newMessage, changed |-> FALSE]

----------------------------------------------------------------------------
(* Handlers are written as functions on the part of the state a handler    *)
(* can change, so that the code a handler runs up to its next suspension   *)
(* point is one step.                                                      *)

World ==
    [store |-> store, pendingMessage |-> pendingMessage, sub |-> sub,
     calls |-> calls, now |-> now, nextLocal |-> nextLocal]

Commit(w) ==
    /\ store' = w.store
    /\ pendingMessage' = w.pendingMessage
    /\ sub' = w.sub
    /\ calls' = w.calls
    /\ now' = w.now
    /\ nextLocal' = w.nextLocal

\* the locals of handleSubmit and processAIResponse; n counts the accepted
\* submissions.  pc is the await the invocation is suspended at, or how the
\* last invocation returned: "committed" after the stream's message was
\* handed to addMessage, "errored" after the error message was, "empty"
\* when the stream ended and nothing was handed over.
Returned == {"idle", "committed", "errored", "empty"}

IdleSub(n, outcome) ==
    [pc |-> outcome, n |-> n, conversationId |-> Null, created |-> Null,
     userMessage |-> NoMessage, newMessage |-> NoMessage]

\* one remote mutation in flight (a useMutation call awaiting its result)
Call(kind, owner, id, title, message, captured) ==
    [kind |-> kind, owner |-> owner, id |-> id, title |-> title,
     message |-> message, captured |-> captured, stage |-> "sent", result |-> Null]

ErrorText == IF route = "index" THEN AIErrorText_index ELSE ErrorText_part004

----------------------------------------------------------------------------
(* handleSubmit and processAIResponse, from the last statement backwards   *)

\* index.tsx:214-216, part_004:216-218: the finally block
Finally_keepLoading(w, outcome) ==
    [w EXCEPT !.sub = IdleSub(w.sub.n, outcome)]

Finally(w, outcome) ==
    [w EXCEPT !.store = setLoading(@, FALSE), !.sub = IdleSub(w.sub.n, outcome)]

FinallyCommitted(w) == Finally(w, "committed")
FinallyErrored(w) == Finally(w, "errored")

\* hooks.ts:138-140, 152-154, 169-171: the catch block of a remote mutation
\* logs the error and does nothing else
catchRemoteError_rollback(w, c) ==
    [w EXCEPT !.store =
        IF c.kind = "addMessage"
        THEN [@ EXCEPT !.conversations = [i \in 1..Len(@) |->
                 IF @[i].id = c.id /\ @[i].messages # <<>>
                 THEN [@[i] EXCEPT !.messages = SubSeq(@, 1, Len(@) - 1)]
                 ELSE @[i]]]
        ELSE IF c.kind = "updateTitle"
        THEN updateConversationTitle(@, c.id, DefaultTitle)
        ELSE addConversation(@, Conv(c.id, DefaultTitle, <<>>))]

catchRemoteError(w, c) == w

\* index.tsx:204 with 72-90, part_004:192-196 with 97-115: after the user
\* message is stored, up to the await of genAIResponse
AfterAddUser(w) ==
    [w EXCEPT !.sub.pc = "awaitAI",
              !.pendingMessage = IF route = "index" THEN @ ELSE <<>>]

\* the caller of the adapter's addMessage resumes after its await
AfterAddMessage(w) ==
    CASE w.sub.pc = "awaitAddUser" -> AfterAddUser(w)
      [] w.sub.pc = "awaitAddAssistant" -> FinallyCommitted(w)
      [] w.sub.pc = "awaitAddError" -> FinallyErrored(w)

\* hooks.ts:158-173: the adapter's addMessage up to its await, or to the
\* caller's next await when there is no remote call; awaitPc is where the
\* caller awaits it
adapterAddMessage_remoteFirst(w, conversationId, message, awaitPc) ==
    IF isConvexAvailable
    THEN [w EXCEPT
            !.sub.pc = awaitPc,
            !.calls = @ \cup {Call("addMessage", "submit", conversationId,
                                   <<>>, message, Null)}]
    ELSE AfterAddMessage([w EXCEPT !.store = addMessage(@, conversationId, message),
                                   !.sub.pc = awaitPc])

adapterAddMessageWhen(available, w, conversationId, message, awaitPc) ==
    LET w1 == [w EXCEPT !.store = addMessage(@, conversationId, message),
                        !.sub.pc = awaitPc]
    IN  IF available
        THEN [w1 EXCEPT
                !.calls = @ \cup {Call("addMessage", "submit", conversationId,
                                       <<>>, message, Null)}]
        ELSE AfterAddMessage(w1)

adapterAddMessage(w, conversationId, message, awaitPc) ==
    adapterAddMessageWhen(isConvexAvailable, w, conversationId, message, awaitPc)

\* index.tsx:130-139, part_004:152-161: the catch block of processAIResponse
CatchAIError(w) ==
    LET errorMessage == [id |-> w.now + 1, role |-> "assistant", content |-> ErrorText]
    IN  adapterAddMessage([w EXCEPT !.now = @ + 2], w.sub.conversationId,
                          errorMessage, "awaitAddError")

\* index.tsx:124-129, part_004:151: after the read loop
AfterReadLoop(w) ==
    IF route = "index"
    THEN LET w1 == [w EXCEPT !.pendingMessage = <<>>]
         IN  IF trim(w.sub.newMessage.content) # <<>>
             THEN adapterAddMessage(w1, w.sub.conversationId, w.sub.newMessage,
                                    "awaitAddAssistant")
             ELSE Finally(w1, "empty")
    ELSE adapterAddMessage(w, w.sub.conversationId, w.sub.newMessage,
                           "awaitAddAssistant")

\* index.tsx:176, 200, part_004:191: await addMessage(conversationId, userMessage)
AddUserMessage(w, conversationId) ==
    adapterAddMessage([w EXCEPT !.sub.conversationId = conversationId],
                      conversationId, w.sub.userMessage, "awaitAddUser")

\* index.tsx:168-176, part_004:186-191: after createNewConversation returned
\* newConversation; index.tsx takes the returned object itself as the id
AfterCreate(w, newConversation) ==
    AddUserMessage([w EXCEPT !.sub.created = newConversation.id],
                   IF route = "index" THEN ObjRef(newConversation)
                                      ELSE newConversation.id)

\* what the caller of createNewConversation does with its result
AfterCreateFor(owner, w, newConversation) ==
    IF owner = "submit" THEN AfterCreate(w, newConversation) ELSE w

\* hooks.ts:96-128: createNewConversation up to its await
createNewConversationWhen(available, w, title, owner) ==
    LET id == LocalId(w.nextLocal + 1)
        newConversation == Conv(id, title, <<>>)
        w1 == [w EXCEPT !.store = addConversation(@, newConversation),
                        !.nextLocal = @ + 1]
    IN  IF available
        THEN [w1 EXCEPT
                !.calls = @ \cup {Call("create", owner, id, title, NoMessage, Null)},
                !.sub.pc = IF owner = "submit" THEN "awaitCreate" ELSE @]
        ELSE AfterCreateFor(owner,
                [w1 EXCEPT !.store = setCurrentConversationId(@, id)],
                newConversation)

createNewConversation(w, title, owner) ==
    createNewConversationWhen(isConvexAvailable, w, title, owner)

\* hooks.ts:110-119: the remote create returned convexId
createResolved(w, c) ==
    AfterCreateFor(c.owner,
        [w EXCEPT !.store = setCurrentConversationId(
                                updateConversationId(@, c.id, c.result), c.result)],
        Conv(c.result, c.title, <<>>))

\* hooks.ts:120-127: the remote create threw
createRejected_rollback(w, c) ==
    AfterCreateFor(c.owner,
        [w EXCEPT !.store = deleteConversation(@, c.id)],
        Conv(c.id, c.title, <<>>))

createRejected(w, c) ==
    AfterCreateFor(c.owner,
        [w EXCEPT !.store = setCurrentConversationId(@, c.id)],
        Conv(c.id, c.title, <<>>))

\* index.tsx:228-230: handleDeleteChat after await deleteConversation(id),
\* with the currentConversationId its closure captured; part_004:225-227
AfterDelete(w, c) ==
    IF route = "index" /\ c.captured = c.id
    THEN [w EXCEPT !.store = setCurrentConversationId(@, Null)]
    ELSE w

\* hooks.ts:130-142: updateConversationTitle up to its await; c is the
\* remote call it makes
adapterUpdateConversationTitleWhen_always(available, w, c) ==
    [w EXCEPT !.store = updateConversationTitle(@, c.id, c.title),
              !.calls = @ \cup {c}]

adapterUpdateConversationTitleWhen(available, w, c) ==
    LET w1 == [w EXCEPT !.store = updateConversationTitle(@, c.id, c.title)]
    IN  IF available THEN [w1 EXCEPT !.calls = @ \cup {c}] ELSE w1

\* hooks.ts:144-156: deleteConversation up to its await, or to the end of
\* handleDeleteChat when there is no remote call
adapterDeleteConversationWhen(available, w, c) ==
    LET w1 == [w EXCEPT !.store = deleteConversation(@, c.id)]
    IN  IF available THEN [w1 EXCEPT !.calls = @ \cup {c}] ELSE AfterDelete(w1, c)

----------------------------------------------------------------------------
(* Initial state and steps *)

Inputs == {<<"h", "i">>, <<" ">>}
Routes == {"index", "part_004"}

Init ==
    /\ route \in Routes
    /\ isConvexAvailable \in BOOLEAN
    /\ store = initialState
    /\ pendingMessage = <<>>
    /\ sub = IdleSub(0, "idle")
    /\ calls = {}
    /\ remoteConvs = <<>>
    /\ listDirty = FALSE
    /\ now = 1
    /\ nextLocal = 0
    /\ nextRemote = 0
    /\ delivered = NoneDelivered
    /\ callLog = <<>>
    /\ ebookStore = ebookInitialState

\* a handler ran from World to w; the reader of a finished submission is gone
Step(w) ==
    /\ Commit(w)
    /\ delivered' = IF w.sub.pc \in Returned THEN NoneDelivered ELSE delivered
    /\ UNCHANGED <<ebookStore, route, isConvexAvailable, remoteConvs, listDirty,
                       nextRemote, callLog>>

\* a user action outside a submission may start another remote mutation
CanCall ==
    isConvexAvailable => Cardinality({c \in calls : c.owner # "submit"}) < MaxCalls

\* index.tsx:142-201, part_004:164-191: handleSubmit up to its first await
handleSubmit ==
    \E input \in Inputs :
        /\ trim(input) # <<>>
        /\ ~store.isLoading
        /\ sub.n < MaxSubmits
        /\ LET userMessage == [id |-> now, role |-> "user", content |-> trim(input)]
               conversationId == store.currentConversationId
               w1 == [World EXCEPT
                        !.store = setLoading(@, TRUE),
                        !.now = @ + 2,
                        !.sub = [IdleSub(sub.n + 1, "running") EXCEPT
                                    !.userMessage = userMessage],
                        !.pendingMessage =
                            IF route = "index" THEN @ ELSE <<userMessage>>]
           IN  IF conversationId = Null
               THEN /\ nextLocal < MaxConvs
                    /\ Step(createNewConversation(w1, createTitleFromInput(input),
                                                  "submit"))
               ELSE Step(AddUserMessage(w1, conversationId))

\* index.tsx:219-223, part_004:221-223
handleNewChat ==
    IF route = "index"
    THEN Step([World EXCEPT !.store = setCurrentConversationId(@, Null)])
    ELSE /\ nextLocal < MaxConvs
         /\ CanCall
         /\ Step(createNewConversation(World, DefaultTitle, "newchat"))

\* Sidebar.tsx:113: onSelect of a listed conversation
selectConversation ==
    \E id \in Ids(store.conversations) :
        Step([World EXCEPT !.store = setCurrentConversationId(@, id)])

\* index.tsx:225-234, part_004:225-227 with hooks.ts:144-156
handleDeleteChat ==
    \E id \in Ids(store.conversations) :
        LET c == Call("delete", "user", id, <<>>, NoMessage,
                      store.currentConversationId)
        IN  /\ isConvexAvailable => CanCall /\ c \notin calls
            /\ Step(adapterDeleteConversationWhen(isConvexAvailable, World, c))

\* index.tsx:236-242, part_004:229-233 with hooks.ts:130-142
handleUpdateChatTitle ==
    \E id \in Ids(store.conversations) :
        LET c == Call("updateTitle", "user", id, RenamedTitle, NoMessage, Null)
            w1 == adapterUpdateConversationTitleWhen(isConvexAvailable, World, c)
        IN  /\ w1.store # store
            /\ isConvexAvailable => CanCall
            /\ Step(w1)

\* index.tsx:85-104, part_004:110-129: genAIResponse returned a response
\* with a body
genAIResponseReturns ==
    /\ sub.pc = "awaitAI"
    /\ Step([World EXCEPT
                !.sub.pc = "reading",
                !.sub.newMessage = [id |-> now + 1, role |-> "assistant",
                                    content |-> <<>>],
                !.now = @ + 2])

\* index.tsx:85-95, part_004:110-120: genAIResponse threw, or the response
\* has no body
genAIResponseThrows ==
    /\ sub.pc = "awaitAI"
    /\ Step(CatchAIError(World))

\* index.tsx:105-122, part_004:131-149: reader.read() returned a chunk
readChunkFrom_commitsDraft(chunks, maxChunks) ==
    \E raw \in chunks :
        /\ sub.pc = "reading"
        /\ delivered.chunks < maxChunks
        /\ LET r == processChunk(sub.newMessage, raw)
           IN  Commit([World EXCEPT
                        !.sub.newMessage = r.newMessage,
                        !.store = IF r.changed
                                  THEN addMessage(@, sub.conversationId, r.newMessage)
                                  ELSE @])
        /\ delivered' = Deliver(delivered, raw)
        /\ UNCHANGED <<ebookStore, route, isConvexAvailable, remoteConvs, listDirty,
                       nextRemote, callLog>>

readChunkFrom(chunks, maxChunks) ==
    \E raw \in chunks :
        /\ sub.pc = "reading"
        /\ delivered.chunks < maxChunks
        /\ LET r == processChunk(sub.newMessage, raw)
           IN  Commit([World EXCEPT
                        !.sub.newMessage = r.newMessage,
                        !.pendingMessage =
                            IF r.changed THEN <<r.newMessage>> ELSE @])
        /\ delivered' = Deliver(delivered, raw)
        /\ UNCHANGED <<ebookStore, route, isConvexAvailable, remoteConvs, listDirty,
                       nextRemote, callLog>>

\* the streams of the full model deliver text deltas only
readChunk == readChunkFrom({ChunkA}, MaxChunks)

\* the streams of the stream model deliver any of the chunks
readAnyChunk == readChunkFrom(Chunks, MaxStreamChunks)

\* reader.read() returned done
readDone ==
    /\ sub.pc = "reading"
    /\ Step(AfterReadLoop(World))

\* reader.read() threw
readThrows ==
    /\ sub.pc = "reading"
    /\ Step(CatchAIError(World))

----------------------------------------------------------------------------
(* The remote backend *)

\* the backend's create, updateTitle, remove and addMessage mutations
remoteMutation(convs, c, newId) ==
    CASE c.kind = "create" -> Append(convs, Conv(newId, c.title, <<>>))
      [] c.kind = "updateTitle" ->
            [i \in 1..Len(convs) |->
                IF convs[i].id = c.id THEN [convs[i] EXCEPT !.title = c.title]
                                      ELSE convs[i]]
      [] c.kind = "delete" -> SelectSeq(convs, LAMBDA conv : conv.id # c.id)
      [] c.kind = "addMessage" ->
            [i \in 1..Len(convs) |->
                IF convs[i].id = c.id
                THEN [convs[i] EXCEPT !.messages = Append(@, c.message)]
                ELSE convs[i]]

\* the backend runs a mutation; one that names an id the backend does not
\* have cannot succeed
remoteApply ==
    \E c \in calls :
        /\ c.stage = "sent"
        /\ c.kind # "create" => c.id \in Ids(remoteConvs)
        /\ LET newId == RemoteId(nextRemote + 1)
           IN  /\ remoteConvs' = remoteMutation(remoteConvs, c, newId)
               /\ calls' = (calls \ {c}) \cup
                    {[c EXCEPT !.stage = "applied",
                               !.result = IF c.kind = "create" THEN newId ELSE Null]}
               /\ nextRemote' = IF c.kind = "create" THEN nextRemote + 1 ELSE nextRemote
        /\ listDirty' = TRUE
        /\ UNCHANGED <<ebookStore, route, isConvexAvailable, store, pendingMessage, sub, now,
                       nextLocal, delivered, callLog>>

\* the code after the await of a remote mutation that returned
resolved(w, c) ==
    CASE c.kind = "create" -> createResolved(w, c)
      [] c.kind = "addMessage" -> AfterAddMessage(w)
      [] c.kind = "delete" -> AfterDelete(w, c)
      [] c.kind = "updateTitle" -> w

\* the code after the await of a remote mutation that threw
rejected(w, c) ==
    CASE c.kind = "create" -> createRejected(w, c)
      [] c.kind = "addMessage" -> AfterAddMessage(catchRemoteError(w, c))
      [] c.kind = "delete" -> AfterDelete(catchRemoteError(w, c), c)
      [] c.kind = "updateTitle" -> catchRemoteError(w, c)

remoteResolve ==
    \E c \in calls :
        /\ c.stage = "applied"
        /\ Step(resolved([World EXCEPT !.calls = @ \ {c}], c))

remoteReject ==
    \E c \in calls :
        /\ c.stage = "sent"
        /\ Step(rejected([World EXCEPT !.calls = @ \ {c}], c))

\* hooks.ts:79-89: the effect on a new result of the list query
reconcile ==
    /\ isConvexAvailable
    /\ listDirty
    /\ listDirty' = FALSE
    /\ store' = IF Len(remoteConvs) > 0 THEN setConversations(store, remoteConvs)
                                        ELSE store
    /\ UNCHANGED <<ebookStore, route, isConvexAvailable, pendingMessage, sub, calls,
                   remoteConvs, now, nextLocal, nextRemote, delivered, callLog>>

Next ==
    \/ handleSubmit
    \/ handleNewChat
    \/ selectConversation
    \/ handleDeleteChat
    \/ handleUpdateChatTitle
    \/ genAIResponseReturns
    \/ genAIResponseThrows
    \/ readChunk
    \/ readDone
    \/ readThrows
    \/ remoteApply
    \/ remoteResolve
    \/ remoteReject
    \/ reconcile

Spec == Init /\ [][Next]_vars

\* a step of the submission in flight: the completion request returns or
\* throws, a stream read returns a chunk or done or throws, the remote call
\* the submission awaits is run, returns or throws
SubmissionStep ==
    \/ genAIResponseReturns
    \/ genAIResponseThrows
    \/ readChunk
    \/ readDone
    \/ readThrows
    \/ /\ remoteApply \/ remoteResolve \/ remoteReject
       /\ \E c \in calls : c.owner = "submit" /\ c \notin calls'

\* the runs in which every network call and stream read of a submission
\* eventually returns or fails
FairSpec == Spec /\ WF_vars(SubmissionStep)

\* the runs in which the user deletes no conversation
NextNoDelete ==
    \/ handleSubmit
    \/ handleNewChat
    \/ selectConversation
    \/ handleUpdateChatTitle
    \/ genAIResponseReturns
    \/ genAIResponseThrows
    \/ readChunk
    \/ readDone
    \/ readThrows
    \/ remoteApply
    \/ remoteResolve
    \/ remoteReject
    \/ reconcile

SpecNoDelete == Init /\ [][NextNoDelete]_vars

\* the stream model: submissions and their streams over all the chunks,
\* with the remote mutations they wait for and no other user action
NextStream ==
    \/ handleSubmit
    \/ genAIResponseReturns
    \/ genAIResponseThrows
    \/ readAnyChunk
    \/ readDone
    \/ readThrows
    \/ remoteApply
    \/ remoteResolve
    \/ remoteReject

SpecStream == Init /\ [][NextStream]_vars

----------------------------------------------------------------------------
(* The store model: the actions of store.ts called directly, one call a    *)
(* step, each call logged                                                  *)

StoreMessages ==
    {[id |-> 1, role |-> "user", content |-> <<"h", "i">>],
     [id |-> 2, role |-> "assistant", content |-> <<"A">>]}

StoreUnchanged ==
    UNCHANGED <<ebookStore, route, isConvexAvailable, pendingMessage, sub, calls, remoteConvs,
                listDirty, now, nextRemote, delivered>>

\* store.ts:119-125 called with a conversation under a fresh id
store_addConversation ==
    /\ nextLocal < MaxStoreConvs
    /\ store' = addConversation(store, Conv(LocalId(nextLocal + 1), DefaultTitle, <<>>))
    /\ nextLocal' = nextLocal + 1
    /\ UNCHANGED callLog
    /\ StoreUnchanged

\* store.ts:157-166 called with the id of a conversation in the store
store_addMessage ==
    \E conversationId \in Ids(store.conversations), message \in StoreMessages :
        /\ Len(callLog) < MaxLog
        /\ store' = addMessage(store, conversationId, message)
        /\ callLog' = Append(callLog, [action |-> "addMessage",
                                       conversationId |-> conversationId,
                                       message |-> message])
        /\ UNCHANGED nextLocal
        /\ StoreUnchanged

NextStore ==
    \/ store_addConversation
    \/ store_addMessage

SpecStore == Init /\ [][NextStore]_vars

----------------------------------------------------------------------------
(* The prompt model: the prompt actions of store.ts called directly, one   *)
(* call a step; callLog holds the last call.  Date.now() does not go back  *)
(* and may return the same millisecond to two readings.                    *)

PromptUnchanged ==
    UNCHANGED <<ebookStore, route, isConvexAvailable, pendingMessage, sub, calls, remoteConvs,
                listDirty, nextLocal, nextRemote, delivered>>

Called(action, args) == callLog' = <<[action |-> action, args |-> args]>>

PromptIds == 0..MaxPromptTime

call_createPrompt ==
    \E id \in now..(now + 1) :
        \E created_at \in id..(id + 1) :
            /\ Len(store.prompts) < MaxPrompts
            /\ created_at <= MaxPromptTime
            /\ store' = createPrompt(store, <<"name">>, <<"content">>, id, created_at)
            /\ now' = created_at
            /\ Called("createPrompt", <<id>>)
            /\ PromptUnchanged

call_deletePrompt ==
    \E id \in PromptIds :
        /\ store' = deletePrompt(store, id)
        /\ Called("deletePrompt", <<id>>)
        /\ UNCHANGED now
        /\ PromptUnchanged

call_setPromptActive ==
    \E id \in PromptIds, shouldActivate \in BOOLEAN :
        /\ store' = setPromptActive(store, id, shouldActivate)
        /\ Called("setPromptActive", <<id, shouldActivate>>)
        /\ UNCHANGED now
        /\ PromptUnchanged

NextPrompts ==
    \/ call_createPrompt
    \/ call_deletePrompt
    \/ call_setPromptActive

SpecPrompts == Init /\ [][NextPrompts]_vars

----------------------------------------------------------------------------
(* The action model: the conversation actions of store.ts called directly  *)
(* with any argument, one call a step; callLog holds the last call.  The   *)
(* store starts with or without a prompt, loading or not.                  *)

APrompt ==
    [id |-> 1, name |-> <<"name">>, content |-> <<"content">>,
     is_active |-> TRUE, created_at |-> 1]

InitActions ==
    /\ \E prompts \in {<<>>, <<APrompt>>}, loading \in BOOLEAN :
          store = [initialState EXCEPT !.prompts = prompts, !.isLoading = loading]
    /\ route = "index"
    /\ isConvexAvailable = FALSE
    /\ pendingMessage = <<>>
    /\ sub = IdleSub(0, "idle")
    /\ calls = {}
    /\ remoteConvs = <<>>
    /\ listDirty = FALSE
    /\ now = 1
    /\ nextLocal = 0
    /\ nextRemote = 0
    /\ delivered = NoneDelivered
    /\ callLog = <<>>
    /\ ebookStore = ebookInitialState

\* the message the calls are made with
ActionMessages == {[id |-> 1, role |-> "user", content |-> <<"h", "i">>]}

\* the ids the calls are made with: those addConversation gives, and one more
ActionIds == {LocalId(k) : k \in 1..MaxStoreConvs} \cup {RemoteId(1)}

ActionUnchanged ==
    UNCHANGED <<ebookStore, route, isConvexAvailable, pendingMessage, sub, calls, remoteConvs,
                listDirty, now, nextRemote, delivered>>

call_addConversation ==
    /\ nextLocal < MaxStoreConvs
    /\ store' = addConversation(store, Conv(LocalId(nextLocal + 1), DefaultTitle, <<>>))
    /\ nextLocal' = nextLocal + 1
    /\ Called("addConversation", <<LocalId(nextLocal + 1)>>)
    /\ ActionUnchanged

call_addMessage ==
    \E conversationId \in ActionIds, message \in ActionMessages :
        /\ \A i \in 1..Len(store.conversations) :
              store.conversations[i].id = conversationId
                 => Len(store.conversations[i].messages) < MaxStoreMessages
        /\ store' = addMessage(store, conversationId, message)
        /\ Called("addMessage", <<conversationId, message>>)
        /\ UNCHANGED nextLocal
        /\ ActionUnchanged

call_deleteConversation ==
    \E id \in ActionIds :
        /\ store' = deleteConversation(store, id)
        /\ Called("deleteConversation", <<id>>)
        /\ UNCHANGED nextLocal
        /\ ActionUnchanged

call_updateConversationId ==
    \E oldId \in ActionIds :
        /\ store' = updateConversationId(store, oldId, RemoteId(1))
        /\ Called("updateConversationId", <<oldId, RemoteId(1)>>)
        /\ UNCHANGED nextLocal
        /\ ActionUnchanged

call_setCurrentConversationId ==
    \E id \in ActionIds \cup {Null} :
        /\ store' = setCurrentConversationId(store, id)
        /\ Called("setCurrentConversationId", <<id>>)
        /\ UNCHANGED nextLocal
        /\ ActionUnchanged

NextActions ==
    \/ call_addConversation
    \/ call_addMessage
    \/ call_deleteConversation
    \/ call_updateConversationId
    \/ call_setCurrentConversationId

SpecActions == InitActions /\ [][NextActions]_vars

----------------------------------------------------------------------------
(* The title model: createTitleFromInput called once with any text;       *)
(* callLog holds the call and what it returned                             *)

TextChars == {"a", "b", " ", "\t"}

Texts == UNION {[1..n -> TextChars] : n \in 0..MaxTextLen}

call_createTitleFromInput ==
    /\ callLog = <<>>
    /\ \E text \in Texts :
        /\ callLog' = <<[action |-> "createTitleFromInput", args |-> <<text>>,
                         result |-> createTitleFromInput(text)]>>
        /\ UNCHANGED <<ebookStore, route, isConvexAvailable, store, pendingMessage, sub, calls,
                       remoteConvs, listDirty, now, nextLocal, nextRemote, delivered>>

NextTitle == call_createTitleFromInput

SpecTitle == Init /\ [][NextTitle]_vars

----------------------------------------------------------------------------
(* The MCP endpoint (src/src/routes/api/mcp.ts, src/mcp.config.ts): one    *)
(* request handled under any environment; callLog holds the request and    *)
(* the response                                                            *)

Bearer == <<"B", "e", "a", "r", "e", "r", " ">>

\* String.prototype.indexOf, 1-based, 0 when the pattern does not occur
indexOf(s, pat) ==
    LET at == {i \in 1..(Len(s) - Len(pat) + 1) : SubSeq(s, i, i + Len(pat) - 1) = pat}
    IN  IF at = {} THEN 0 ELSE CHOOSE i \in at : \A j \in at : i <= j

\* String.prototype.replace with a string pattern: the first occurrence only
replace(s, pat, by) ==
    LET i == indexOf(s, pat)
    IN  IF i = 0 THEN s
        ELSE SubSeq(s, 1, i - 1) \o by \o SubSeq(s, i + Len(pat), Len(s))

\* mcp.config.ts:22-32
getMCPConfig(env) ==
    [enabled |-> env.VITE_MCP_SERVER_ENABLED = Some("true"),
     apiToken |-> env.VITE_MCP_API_TOKEN]

\* mcp.config.ts:37-42
validateMCPToken_unsetAcceptsAll(token, providedToken) ==
    IF token = Absent \/ token = Some(<<>>) THEN TRUE
    ELSE token = Some(providedToken)

validateMCPToken(token, providedToken) ==
    IF token = Absent \/ token = Some(<<>>) THEN FALSE
    ELSE token = Some(providedToken)

Response(status, contacted) == [status |-> status, contacted |-> contacted]

\* mcp.ts:128-158 and 272-302: the status the catch block answers with
statusOfError(error) ==
    CASE error = "rate limit" -> 429
      [] error \in {"Connection error", "APIConnectionError"} -> 503
      [] error = "authentication" -> 401
      [] OTHER -> 500

\* mcp.ts:48-127 and 197-271: what the handler does with an authorized request
forward(env, request, outcome) ==
    CASE request.messages = "missing" -> Response(400, FALSE)
      [] request.messages = "throws" -> Response(statusOfError("SyntaxError"), FALSE)
      [] ~env.ANTHROPIC_API_KEY -> Response(500, FALSE)
      [] request.messages = "blank" -> Response(400, FALSE)
      [] OTHER -> IF outcome = "ok" THEN Response(200, TRUE)
                  ELSE Response(statusOfError(outcome), TRUE)

\* mcp.ts:13-160 (GET) and 162-304 (POST)
handleMCP(env, request, outcome) ==
    LET config == getMCPConfig(env)
        authHeader == request.Authorization
        token == IF authHeader = Absent THEN Absent
                 ELSE Some(replace(authHeader[1], Bearer, <<>>))
    IN  IF ~config.enabled THEN Response(503, FALSE)
        ELSE IF \/ token = Absent
                \/ token = Some(<<>>)
                \/ ~validateMCPToken(config.apiToken, token[1])
             THEN Response(401, FALSE)
             ELSE forward(env, request, outcome)

TokenChars == {"t", "u"}
Tokens == UNION {[1..n -> TokenChars] : n \in 0..MaxTokenLen}

\* the Authorization header values tried: a token bare, after "Bearer ",
\* after "Bearer" or "bearer ", and around "Bearer "
Headers ==
    {pre \o t : pre \in {<<>>, Bearer, <<"B", "e", "a", "r", "e", "r">>,
                         <<"b", "e", "a", "r", "e", "r", " ">>},
                t \in Tokens}
    \cup {<<c>> \o Bearer \o t : c \in TokenChars, t \in Tokens}

Envs ==
    [VITE_MCP_SERVER_ENABLED : {Absent, Some("true"), Some("false")},
     VITE_MCP_API_TOKEN : {Absent} \cup {Some(t) : t \in Tokens},
     ANTHROPIC_API_KEY : BOOLEAN]

Requests ==
    [method : {"GET", "POST"},
     Authorization : {Absent} \cup {Some(h) : h \in Headers},
     messages : {"missing", "throws", "blank", "valid"}]

Outcomes == {"ok", "rate limit", "APIConnectionError", "authentication", "other"}

call_handleMCP ==
    /\ callLog = <<>>
    /\ \E env \in Envs, request \in Requests, outcome \in Outcomes :
        /\ callLog' = <<[action |-> request.method, env |-> env, request |-> request,
                         result |-> handleMCP(env, request, outcome)]>>
        /\ UNCHANGED <<ebookStore, route, isConvexAvailable, store, pendingMessage, sub, calls,
                       remoteConvs, listDirty, now, nextLocal, nextRemote, delivered>>

NextMCP == call_handleMCP

SpecMCP == Init /\ [][NextMCP]_vars

----------------------------------------------------------------------------
(* The ebook models: the actions of ebookStore.ts called directly, one     *)
(* call a step, the last call logged.  The chapter model edits the         *)
(* chapters of one new ebook; the library model creates, loads, edits,     *)
(* saves, closes and deletes ebooks and restarts the application.          *)

InitEbook ==
    /\ route = "index"
    /\ isConvexAvailable = FALSE
    /\ store = initialState
    /\ pendingMessage = <<>>
    /\ sub = IdleSub(0, "idle")
    /\ calls = {}
    /\ remoteConvs = <<>>
    /\ listDirty = FALSE
    /\ now = 0
    /\ nextLocal = 0
    /\ nextRemote = 0
    /\ delivered = NoneDelivered
    /\ callLog = <<>>
    /\ ebookStore = ebookInitialState

EbookUnchanged ==
    UNCHANGED <<route, isConvexAvailable, store, pendingMessage, sub, calls,
                remoteConvs, listDirty, nextLocal, nextRemote, delivered>>

\* a reading of Date.now() taken no earlier than t
Readings(t) == {r \in t..(t + 1) : r <= MaxEbookTime}

EbookIds == 0..MaxEbookTime

AMetadata == [title |-> <<"a">>, author |-> <<"x">>, description |-> <<>>]

\* EbookStarter.tsx:128
call_createNewEbook ==
    \E id \in Readings(now) : \E createdAt \in Readings(id) :
      \E updatedAt \in Readings(createdAt) :
        /\ ebookStore' = createNewEbook(ebookStore, AMetadata, id, createdAt, updatedAt)
        /\ now' = updatedAt
        /\ Called("createNewEbook", <<id>>)
        /\ EbookUnchanged

\* EbookEditor.tsx:25-30
call_addChapter ==
    \E id \in Readings(now) : \E updatedAt \in Readings(id) :
        /\ ebookStore.currentEbook # Absent
        /\ Len(ebookStore.currentEbook[1].chapters) < MaxChapters
        /\ ebookStore' = addChapter(ebookStore, <<"a">>, id, updatedAt)
        /\ now' = updatedAt
        /\ Called("addChapter", <<id>>)
        /\ EbookUnchanged

\* ChapterEditor.tsx:21 and 27: the updates are a title or a content
ChapterUpdates == {[title |-> <<"b">>], [content |-> <<"c">>]}

call_updateChapter ==
    \E chapterId \in EbookIds, updates \in ChapterUpdates, updatedAt \in Readings(now) :
        /\ ebookStore' = updateChapter(ebookStore, chapterId, updates, updatedAt)
        /\ now' = updatedAt
        /\ Called("updateChapter", <<chapterId, updates>>)
        /\ EbookUnchanged

\* part_002:19
call_deleteChapter ==
    \E chapterId \in EbookIds, updatedAt \in Readings(now) :
        /\ ebookStore' = deleteChapter(ebookStore, chapterId, updatedAt)
        /\ now' = updatedAt
        /\ Called("deleteChapter", <<chapterId>>)
        /\ EbookUnchanged

\* the arrays reorderChapters is called with: the current chapters in any order
Reorderings(state) ==
    IF state.currentEbook = Absent THEN {<<>>}
    ELSE LET chapters == state.currentEbook[1].chapters
         IN  {[i \in 1..Len(chapters) |-> chapters[p[i]]] :
                p \in {q \in [1..Len(chapters) -> 1..Len(chapters)] :
                        \A i, j \in 1..Len(chapters) : q[i] = q[j] => i = j}}

call_reorderChapters ==
    \E chapters \in Reorderings(ebookStore), updatedAt \in Readings(now) :
        /\ ebookStore' = reorderChapters(ebookStore, chapters, updatedAt)
        /\ now' = updatedAt
        /\ Called("reorderChapters", <<[i \in 1..Len(chapters) |-> chapters[i].id]>>)
        /\ EbookUnchanged

call_createFirstEbook ==
    /\ ebookStore.currentEbook = Absent
    /\ call_createNewEbook

NextChapters ==
    \/ call_createFirstEbook
    \/ call_addChapter
    \/ call_updateChapter
    \/ call_deleteChapter
    \/ call_reorderChapters

SpecChapters == InitEbook /\ [][NextChapters]_vars

\* EbookStarter.tsx:12-14: an ebook of the saved list is loaded
call_loadEbook ==
    \E i \in 1..Len(ebookStore.savedEbooks) :
        /\ ebookStore' = loadEbook(ebookStore, ebookStore.savedEbooks[i])
        /\ Called("loadEbook", <<ebookStore.savedEbooks[i].id>>)
        /\ UNCHANGED now
        /\ EbookUnchanged

\* MetadataEditor.tsx:17
call_updateMetadata ==
    \E updatedAt \in Readings(now) :
        /\ ebookStore' = updateMetadata(ebookStore, [title |-> <<"b">>], updatedAt)
        /\ now' = updatedAt
        /\ Called("updateMetadata", <<>>)
        /\ EbookUnchanged

\* EbookEditor.tsx:20-23
call_saveEbook ==
    /\ \/ Len(ebookStore.savedEbooks) < MaxSavedEbooks
       \/ /\ ebookStore.currentEbook # Absent
          /\ findIndexOfId(ebookStore.savedEbooks, ebookStore.currentEbook[1].id) >= 1
    /\ ebookStore' = saveEbook(ebookStore)
    /\ Called("saveEbook", <<>>)
    /\ UNCHANGED now
    /\ EbookUnchanged

call_closeEbook ==
    /\ ebookStore' = closeEbook(ebookStore)
    /\ Called("closeEbook", <<>>)
    /\ UNCHANGED now
    /\ EbookUnchanged

\* EbookStarter.tsx:16-21
call_deleteEbook ==
    \E ebookId \in EbookIds :
        /\ ebookStore' = deleteEbook(ebookStore, ebookId)
        /\ Called("deleteEbook", <<ebookId>>)
        /\ UNCHANGED now
        /\ EbookUnchanged

\* the application is loaded again: ebookStore.ts is evaluated again and the
\* store is constructed from initialState (ebookStore.ts:32-38)
restart ==
    /\ ebookStore' = ebookInitialState
    /\ Called("restart", <<>>)
    /\ UNCHANGED now
    /\ EbookUnchanged

\* the library model's chapter edit: a first chapter is added
call_addFirstChapter ==
    /\ ebookStore.currentEbook # Absent
    /\ ebookStore.currentEbook[1].chapters = <<>>
    /\ call_addChapter

NextEbooks ==
    \/ call_createNewEbook
    \/ call_loadEbook
    \/ call_updateMetadata
    \/ call_addFirstChapter
    \/ call_saveEbook
    \/ call_closeEbook
    \/ call_deleteEbook
    \/ restart

SpecEbooks == InitEbook /\ [][NextEbooks]_vars

----------------------------------------------------------------------------
(* The creation model: conversations are created (hooks.ts:96-128) while   *)
(* the backend runs, returns or fails the create calls and the list query  *)
(* delivers new results (hooks.ts:79-89)                                   *)

call_createNewConversation ==
    /\ nextLocal < MaxCreates
    /\ Step(createNewConversation(World, DefaultTitle, "newchat"))

NextCreate ==
    \/ call_createNewConversation
    \/ remoteApply
    \/ remoteResolve
    \/ remoteReject
    \/ reconcile

SpecCreate == Init /\ [][NextCreate]_vars

----------------------------------------------------------------------------
(* Properties *)

Holds(convs, message) ==
    \E i \in 1..Len(convs) :
        \E j \in 1..Len(convs[i].messages) : convs[i].messages[j] = message

\* the id of the conversation a submission is made to: the one it created,
\* or the one that was current
Target(s) == IF s.created # Null THEN s.created ELSE s.conversationId

\* C1: when a submission whose stream ended with non-empty accumulated
\* content returns, some conversation of the store holds the assistant
\* message with that content (in runs without a user delete)
C1_AssistantMessageStored ==
    [][(/\ sub.pc \notin Returned
        /\ sub'.pc \in {"committed", "empty"}
        /\ sub.newMessage.content # <<>>)
       => Holds(store'.conversations, sub.newMessage)]_vars

\* C2: when a submission issues its completion request, the user message is
\* in a conversation of the store
C2_UserMessageBeforeRequest ==
    [][(sub.pc # "awaitAI" /\ sub'.pc = "awaitAI")
       => Holds(store'.conversations, sub'.userMessage)]_vars

\* the step is the one in which the completion request or a stream read of
\* the submission threw
Threw == sub.pc \in {"awaitAI", "reading"} /\ sub'.pc \in {"awaitAddError", "errored"}

IsErrorMessage(m) == m.role = "assistant" /\ m.content = ErrorText

\* C4: when the completion request or a stream read throws, the submission's
\* conversation gets exactly one more message, the assistant message with the
\* fixed error text, and no conversation holds the partial draft
C4_ErrorMessageAppended ==
    [][Threw =>
        /\ \A i \in 1..Len(store.conversations) :
              store.conversations[i].id = Target(sub) =>
                 /\ i <= Len(store'.conversations)
                 /\ Len(store'.conversations[i].messages)
                        = Len(store.conversations[i].messages) + 1
                 /\ SubSeq(store'.conversations[i].messages, 1,
                           Len(store.conversations[i].messages))
                        = store.conversations[i].messages
                 /\ IsErrorMessage(store'.conversations[i].messages[
                        Len(store'.conversations[i].messages)])
        /\ sub.pc = "reading" => ~Holds(store'.conversations, sub.newMessage)]_vars

\* C8: currentConversationId is null or the id of a conversation in the store
C8_CurrentIsForeignKey ==
    store.currentConversationId = Null
        \/ store.currentConversationId \in Ids(store.conversations)

IsPrefix(s, t) == Len(s) <= Len(t) /\ SubSeq(t, 1, Len(s)) = s

\* C9: in every step, a conversation that is in the store before and after
\* keeps its messages as a prefix of its new messages
C9_MessagesAppendOnly ==
    [][\A i \in 1..Len(store.conversations) :
        \A j \in 1..Len(store'.conversations) :
            store.conversations[i].id = store'.conversations[j].id
                => IsPrefix(store.conversations[i].messages,
                            store'.conversations[j].messages)]_vars

\* the step is the one in which the stream of the submission ended and its
\* message was handed to addMessage
StreamCommitted == sub.pc = "reading" /\ sub'.pc \in {"awaitAddAssistant", "committed"}

\* C3: every chunk read leaves the submission reading; the draft is the
\* concatenation of the text deltas read so far; and the message committed
\* at the end of the stream, in the store and in the remote call, has the
\* concatenation of all the text deltas as its content
C3_CommittedContentIsConcatenation ==
    [][/\ delivered'.chunks > delivered.chunks => sub'.pc = "reading"
       /\ sub'.pc = "reading" => sub'.newMessage.content = delivered'.text
       /\ StreamCommitted =>
            LET committed == [id |-> sub.newMessage.id, role |-> "assistant",
                              content |-> delivered.text]
            IN  /\ \A c \in calls' \ calls : c.message = committed
                /\ \A i \in 1..Len(store.conversations) :
                      store.conversations[i].id = sub.conversationId =>
                         store'.conversations[i].messages
                            = Append(store.conversations[i].messages, committed)]_vars

\* C3 witness: three chunks were read, one of them ignored, and the message
\* handed to addMessage at the end of the stream is in the store with "AB"
C3_Witness ==
    /\ sub.pc = "awaitAddAssistant"
    /\ delivered.chunks = 3
    /\ delivered.text = <<"A", "B">>
    /\ sub.newMessage.content = <<"A", "B">>
    /\ Holds(store.conversations, sub.newMessage)

\* the step is the one in which the remote mutation c threw
Rejects(c) ==
    /\ c \in calls
    /\ c.stage = "sent"
    /\ c \notin calls'
    /\ ~\E d \in calls' \ calls : [d EXCEPT !.stage = "sent", !.result = Null] = c

\* the step is the one in which the remote mutation c returned
Resolves(c) == c \in calls /\ c.stage = "applied" /\ c \notin calls'

\* every conversation of the store stays where it is, under its id and
\* title, and loses no message
ConversationsKept ==
    /\ Len(store'.conversations) = Len(store.conversations)
    /\ \A i \in 1..Len(store.conversations) :
          /\ store'.conversations[i].id = store.conversations[i].id
          /\ store'.conversations[i].title = store.conversations[i].title
          /\ IsPrefix(store.conversations[i].messages,
                      store'.conversations[i].messages)

C6_RemoteFailureNoRollbackNoRetry ==
    [][\A c \in calls :
        (c.kind \in {"updateTitle", "delete", "addMessage"} /\ Rejects(c)) =>
            /\ store'.conversations = store.conversations
            /\ calls' = calls \ {c}
            /\ c.kind # "delete" =>
                  store'.currentConversationId = store.currentConversationId
            /\ c.kind = "delete" =>
                  store'.currentConversationId \in {store.currentConversationId, Null}
            /\ c.kind = "addMessage" =>
                  sub'.pc = (CASE sub.pc = "awaitAddUser" -> "awaitAI"
                               [] sub.pc = "awaitAddAssistant" -> "committed"
                               [] sub.pc = "awaitAddError" -> "errored")
            /\ c.kind # "addMessage" => sub' = sub]_vars

\* C6 witness: the remote addMessage of the user message threw, the message
\* is in the store and the submission has issued its completion request
C6_Witness ==
    /\ isConvexAvailable
    /\ sub.pc = "awaitAI"
    /\ calls = {}
    /\ Holds(store.conversations, sub.userMessage)
    /\ ~Holds(remoteConvs, sub.userMessage)

\* C7: when the remote create of createNewConversation returns, no
\* conversation has the local id, the conversation that had it has the
\* remote id, in its place and with its title and messages, and
\* currentConversationId is the remote id
C7_CreateSuccessReconcilesId ==
    [][\A c \in calls :
        (c.kind = "create" /\ Resolves(c)) =>
            /\ c.id \notin Ids(store'.conversations)
            /\ store'.currentConversationId = c.result
            /\ Len(store'.conversations) = Len(store.conversations)
            /\ \A i \in 1..Len(store.conversations) :
                  /\ store'.conversations[i].id =
                        (IF store.conversations[i].id = c.id
                         THEN c.result ELSE store.conversations[i].id)
                  /\ store'.conversations[i].title = store.conversations[i].title
                  /\ IsPrefix(store.conversations[i].messages,
                              store'.conversations[i].messages)]_vars

\* C7 witness: a message was appended to the new conversation while the
\* remote create was pending, and the conversation now has the remote id
C7_Witness ==
    /\ \A c \in calls : c.kind # "create"
    /\ store.currentConversationId = RemoteId(1)
    /\ sub.created = Null
    /\ sub.conversationId = LocalId(1)
    /\ \E i \in 1..Len(store.conversations) :
          /\ store.conversations[i].id = RemoteId(1)
          /\ store.conversations[i].messages = <<sub.userMessage>>
    /\ \A j \in 1..Len(remoteConvs) : remoteConvs[j].messages = <<>>

\* C11: addMessage with an id no conversation has leaves the store as it is
C11_AddMessageUnknownIdNoOp ==
    [][\A conversationId \in ActionIds, message \in ActionMessages :
        (/\ Called("addMessage", <<conversationId, message>>)
         /\ conversationId \notin Ids(store.conversations)) => store' = store]_vars

\* C11 witness: addMessage was called with an id no conversation has, on a
\* store that has a prompt, a conversation with a message and a current id
C11_Witness ==
    /\ callLog # <<>>
    /\ callLog[1].action = "addMessage"
    /\ callLog[1].args[1] \notin Ids(store.conversations)
    /\ store.prompts # <<>>
    /\ store.currentConversationId # Null
    /\ \E i \in 1..Len(store.conversations) : store.conversations[i].messages # <<>>

\* C14: deleteConversation(id) leaves no conversation with the id and keeps
\* the others in their order; currentConversationId becomes null if it was
\* id and stays as it is otherwise; prompts and isLoading stay
C14_DeleteConversation ==
    [][\A id \in ActionIds :
        Called("deleteConversation", <<id>>) =>
            /\ id \notin Ids(store'.conversations)
            /\ store'.conversations
                  = SelectSeq(store.conversations, LAMBDA conv : conv.id # id)
            /\ store'.currentConversationId
                  = (IF store.currentConversationId = id
                     THEN Null ELSE store.currentConversationId)
            /\ store'.prompts = store.prompts
            /\ store'.isLoading = store.isLoading]_vars

\* C14 witness: the current conversation was deleted and another one is left
C14_Witness ==
    /\ callLog # <<>>
    /\ callLog[1].action = "deleteConversation"
    /\ callLog[1].args[1] \in 1..nextLocal
    /\ callLog[1].args[1] \notin Ids(store.conversations)
    /\ store.currentConversationId = Null
    /\ nextLocal = 2
    /\ Len(store.conversations) = 1

\* C18: updateConversationId(oldId, newId) with an oldId no conversation has
\* leaves the store as it is
C18_UpdateIdUnknownNoOp ==
    [][\A oldId \in ActionIds :
        (/\ Called("updateConversationId", <<oldId, RemoteId(1)>>)
         /\ oldId \notin Ids(store.conversations)) => store' = store]_vars

\* C15: while no submission is in flight the pending slot is null
C15_PendingClearedWhenFinished ==
    sub.pc \in Returned => pendingMessage = <<>>

\* some conversation holds a message with the id
HoldsId(convs, id) ==
    \E i \in 1..Len(convs) :
        \E j \in 1..Len(convs[i].messages) : convs[i].messages[j].id = id

\* C16: while the stream is read no conversation holds a message with the
\* draft's id; a chunk read leaves the conversations as they are, and the
\* draft a text delta extends is in the pending slot
C16_DraftOnlyInPendingSlot ==
    [][/\ sub'.pc = "reading" => ~HoldsId(store'.conversations, sub'.newMessage.id)
       /\ delivered'.chunks > delivered.chunks =>
            /\ store'.conversations = store.conversations
            /\ sub'.newMessage # sub.newMessage
                  => pendingMessage' = <<sub'.newMessage>>]_vars

\* C16 witness: two text deltas were read, the draft "AB" is in the pending
\* slot and the conversation holds the user message only
C16_Witness ==
    /\ sub.pc = "reading"
    /\ sub.newMessage.content = <<"A", "B">>
    /\ pendingMessage = <<sub.newMessage>>
    /\ \E i \in 1..Len(store.conversations) :
          /\ store.conversations[i].id = sub.conversationId
          /\ store.conversations[i].messages = <<sub.userMessage>>

\* the local mutation of the remote call c is in the State record
Applied(state, c) ==
    LET convs == state.conversations
    IN  CASE c.kind = "create" ->
                \E i \in 1..Len(convs) : convs[i].id = c.id /\ convs[i].title = c.title
          [] c.kind = "updateTitle" ->
                \A i \in 1..Len(convs) : convs[i].id = c.id => convs[i].title = c.title
          [] c.kind = "delete" -> c.id \notin Ids(convs)
          [] c.kind = "addMessage" ->
                \A i \in 1..Len(convs) :
                    convs[i].id = c.id =>
                        /\ convs[i].messages # <<>>
                        /\ convs[i].messages[Len(convs[i].messages)] = c.message

\* C17: in the step that issues a remote call the store has the call's
\* local mutation, and the backend has not run it
C17_LocalBeforeRemote ==
    [][\A c \in calls' \ calls :
        c.stage = "sent" => Applied(store', c) /\ remoteConvs' = remoteConvs]_vars

\* C17 witness: the remote addMessage of the user message is issued, the
\* store's conversation has the message and the backend's has not
C17_Witness ==
    \E c \in calls :
        /\ c.kind = "addMessage"
        /\ c.stage = "sent"
        /\ c.message = sub.userMessage
        /\ \E i \in 1..Len(store.conversations) :
              /\ store.conversations[i].id = c.id
              /\ store.conversations[i].messages = <<c.message>>
        /\ \E j \in 1..Len(remoteConvs) :
              remoteConvs[j].id = c.id /\ remoteConvs[j].messages = <<>>

\* the positions at which a word of the text starts: a character that is
\* not whitespace, at the start of the text or after whitespace
WordStarts(text) ==
    {i \in 1..Len(text) : ~IsSpace(text[i]) /\ (i = 1 \/ IsSpace(text[i - 1]))}

\* the n-th word of the text
Word(text, n) ==
    LET start == CHOOSE i \in WordStarts(text) :
                    Cardinality({k \in WordStarts(text) : k < i}) = n - 1
        end == CHOOSE j \in start..Len(text) :
                    /\ \A k \in start..j : ~IsSpace(text[k])
                    /\ j = Len(text) \/ IsSpace(text[j + 1])
    IN  SubSeq(text, start, end)

\* the first three words with single spaces between them, and "..." when
\* there are more than three
TitleOf(text) ==
    LET n == Cardinality(WordStarts(text))
    IN  Word(text, 1)
          \o (IF n >= 2 THEN <<" ">> \o Word(text, 2) ELSE <<>>)
          \o (IF n >= 3 THEN <<" ">> \o Word(text, 3) ELSE <<>>)
          \o (IF n > 3 THEN <<".", ".", ".">> ELSE <<>>)

\* C19: for a text of one or more words createTitleFromInput returns the
\* first three words joined by single spaces, followed by "..." exactly
\* when there are more than three words
C19_TitleIsFirstThreeWords ==
    \A k \in 1..Len(callLog) :
        (/\ callLog[k].action = "createTitleFromInput"
         /\ WordStarts(callLog[k].args[1]) # {})
            => callLog[k].result = TitleOf(callLog[k].args[1])

\* C19 witness: a text of four words between tabs and spaces gave the
\* first three and the ellipsis
C19_Witness ==
    /\ callLog # <<>>
    /\ callLog[1].action = "createTitleFromInput"
    /\ callLog[1].args[1] = <<"a", "\t", "b", " ", "a", " ", "b">>
    /\ callLog[1].result = <<"a", " ", "b", " ", "a", ".", ".", ".">>

\* the operation that ran to local from here without a backend issued no
\* call and left what the same operation leaves from here with a backend,
\* where it ran to remote and its call c then threw
SameAsFailed(local, remote, c) ==
    /\ local.calls = calls
    /\ local = rejected([remote EXCEPT !.calls = @ \ {c}], c)

\* C20: without a backend there is no remote call, no remote list and
\* nothing to reconcile; and create, rename, delete and append, each run
\* from the present state without a backend, leave the state they leave
\* with a backend whose call fails
C20_LocalOnlyIsFailedRemote ==
    /\ ~isConvexAvailable =>
          calls = {} /\ remoteConvs = <<>> /\ nextRemote = 0 /\ ~listDirty
    /\ LET c == Call("create", "newchat", LocalId(nextLocal + 1), DefaultTitle,
                     NoMessage, Null)
       IN  c \notin calls =>
              SameAsFailed(createNewConversationWhen(FALSE, World, DefaultTitle, "newchat"),
                           createNewConversationWhen(TRUE, World, DefaultTitle, "newchat"),
                           c)
    /\ \A id \in Ids(store.conversations) \cup {LocalId(nextLocal + 1)} :
          /\ LET c == Call("updateTitle", "user", id, RenamedTitle, NoMessage, Null)
             IN  c \notin calls =>
                    SameAsFailed(adapterUpdateConversationTitleWhen(FALSE, World, c),
                                 adapterUpdateConversationTitleWhen(TRUE, World, c), c)
          /\ LET c == Call("delete", "user", id, <<>>, NoMessage,
                           store.currentConversationId)
             IN  c \notin calls =>
                    SameAsFailed(adapterDeleteConversationWhen(FALSE, World, c),
                                 adapterDeleteConversationWhen(TRUE, World, c), c)
          /\ \A awaitPc \in {"awaitAddUser", "awaitAddAssistant", "awaitAddError"} :
                LET message == [id |-> now, role |-> "user", content |-> <<"h", "i">>]
                    c == Call("addMessage", "submit", id, <<>>, message, Null)
                IN  c \notin calls =>
                       SameAsFailed(
                           adapterAddMessageWhen(FALSE, World, id, message, awaitPc),
                           adapterAddMessageWhen(TRUE, World, id, message, awaitPc), c)

\* C20 witness: without a backend a conversation was created by a
\* submission, renamed, and given the user message and the reply
C20_Witness ==
    /\ ~isConvexAvailable
    /\ sub.pc = "committed"
    /\ \E i \in 1..Len(store.conversations) :
          /\ store.conversations[i].title = RenamedTitle
          /\ Len(store.conversations[i].messages) = 2

\* the positions of the active prompts
Active(prompts) == {i \in 1..Len(prompts) : prompts[i].is_active}

\* C12: at most one prompt has is_active = true
C12_AtMostOneActivePrompt == Cardinality(Active(store.prompts)) <= 1

\* C13: after setPromptActive(id, true) exactly one prompt is active, and it
\* is the prompt with the id
C13_ActivateMakesExactlyOneActive ==
    [][\A id \in PromptIds :
        Called("setPromptActive", <<id, TRUE>>) =>
            /\ Cardinality(Active(store'.prompts)) = 1
            /\ \A i \in Active(store'.prompts) : store'.prompts[i].id = id]_vars

\* the messages of the addMessage calls made with the id, in call order
RECURSIVE MessagesAddedTo(_, _)
MessagesAddedTo(id, log) ==
    IF log = <<>> THEN <<>>
    ELSE (IF Head(log).action = "addMessage" /\ Head(log).conversationId = id
          THEN <<Head(log).message>> ELSE <<>>) \o MessagesAddedTo(id, Tail(log))

\* C10: after any sequence of addMessage calls with ids of conversations in
\* the store, each conversation's messages are the messages of the calls
\* made with its id, one a call and in call order
C10_AddMessageAppendsInCallOrder ==
    \A i \in 1..Len(store.conversations) :
        store.conversations[i].messages
            = MessagesAddedTo(store.conversations[i].id, callLog)

\* C10 witness: a conversation got two different messages, one after the other
C10_Witness ==
    \E i \in 1..Len(store.conversations) :
        /\ Len(store.conversations[i].messages) >= 2
        /\ store.conversations[i].messages[1] # store.conversations[i].messages[2]

\* the MCP model has handled a request
Handled == callLog # <<>> /\ callLog[1].action \in {"GET", "POST"}

\* the header carries the token: it is the token with "Bearer " put in once,
\* or the token itself
CarriesToken(header, t) ==
    \/ header = t
    \/ \E i \in 0..Len(t) : header = SubSeq(t, 1, i) \o Bearer \o SubSeq(t, i + 1, Len(t))

\* the request's Authorization header carries the configured, non-empty token
Authorized(c) ==
    /\ c.env.VITE_MCP_API_TOKEN # Absent
    /\ c.env.VITE_MCP_API_TOKEN # Some(<<>>)
    /\ c.request.Authorization # Absent
    /\ CarriesToken(c.request.Authorization[1], c.env.VITE_MCP_API_TOKEN[1])

\* C21: the MCP endpoint, GET and POST, contacts the completion provider only
\* when the server is enabled and the header's token is the configured one;
\* disabled it answers 503; enabled with a missing or different token, or
\* with no token configured, it answers 401; both without contacting the
\* provider
C21_McpForwardsOnlyAuthorized ==
    Handled =>
        LET c == callLog[1]
            enabled == c.env.VITE_MCP_SERVER_ENABLED = Some("true")
        IN  /\ c.result.contacted => enabled /\ Authorized(c)
            /\ ~enabled => c.result.status = 503 /\ ~c.result.contacted
            /\ enabled /\ ~Authorized(c) => c.result.status = 401 /\ ~c.result.contacted

\* C21 witness: an enabled server got "Bearer tu" with "tu" configured and
\* answered with the provider's stream
C21_Witness ==
    /\ Handled
    /\ callLog[1].env.VITE_MCP_SERVER_ENABLED = Some("true")
    /\ callLog[1].env.VITE_MCP_API_TOKEN = Some(<<"t", "u">>)
    /\ callLog[1].request.Authorization = Some(Bearer \o <<"t", "u">>)
    /\ callLog[1].result = Response(200, TRUE)

\* C22: after the application is restarted savedEbooks still holds every
\* ebook that was saved and not deleted
C22_SavedEbooksSurviveRestart ==
    [][Called("restart", <<>>) =>
        \A i \in 1..Len(ebookStore.savedEbooks) :
            \E j \in 1..Len(ebookStore'.savedEbooks) :
                ebookStore'.savedEbooks[j] = ebookStore.savedEbooks[i]]_vars

\* C23: every chapter's order is its index in the chapters array
C23_ChapterOrderIsIndex ==
    ebookStore.currentEbook # Absent =>
        \A i \in 1..Len(ebookStore.currentEbook[1].chapters) :
            ebookStore.currentEbook[1].chapters[i].order = i - 1

\* C23 witness: the chapter with id 0 was deleted and the chapter left, added
\* after it, is the first one
C23_Witness ==
    /\ callLog = <<[action |-> "deleteChapter", args |-> <<0>>]>>
    /\ ebookStore.currentEbook # Absent
    /\ Len(ebookStore.currentEbook[1].chapters) = 1
    /\ ebookStore.currentEbook[1].chapters[1].id = 1
    /\ ebookStore.currentEbook[1].chapters[1].order = 0

\* C24: while a submission is streaming, a submission against another
\* conversation is accepted: with another conversation, or none, current,
\* the isLoading guard of handleSubmit lets a non-blank input through
C24_SecondSubmissionAccepted ==
    (sub.pc = "reading" /\ store.currentConversationId # Target(sub))
        => ~store.isLoading

\* the step is the one in which the stream of the submission completed
StreamEnded == sub.pc = "reading" /\ sub'.pc \notin {"reading", "awaitAddError", "errored"}

\* C25: when the stream completes and no content was accumulated, no message
\* is appended to a conversation of the store
C25_EmptyStreamAddsNoMessage ==
    [][StreamEnded /\ sub.newMessage.content = <<>>
          => store'.conversations = store.conversations]_vars

\* C26: a submission in flight has isLoading set, from its first suspension
\* point on, and isLoading eventually becomes false again
C26_LoadingSetThenCleared ==
    /\ [](sub.pc \notin Returned => store.isLoading)
    /\ (store.isLoading ~> ~store.isLoading)

\* C26 witness: a submission whose completion failed has returned and
\* isLoading is false
C26_Witness == sub.n = 1 /\ sub.pc = "errored" /\ ~store.isLoading

\* C27: the ids of the conversations in the store are pairwise distinct
C27_ConversationIdsDistinct ==
    \A i, j \in 1..Len(store.conversations) :
        store.conversations[i].id = store.conversations[j].id => i = j

\* C27 witness: the store holds a conversation under its remote id and one
\* under its local id, and a create call has still to return
C27_Witness ==
    /\ Len(store.conversations) >= 2
    /\ \E i, j \in 1..Len(store.conversations) :
          /\ store.conversations[i].id > RemoteBase
          /\ store.conversations[j].id < RemoteBase
    /\ \E c \in calls : c.kind = "create" /\ c.stage = "applied"

\* C28: setPromptActive(id, false) makes the prompt with the id inactive and
\* changes nothing else: the other prompts' flags, the order and the content
\* of the prompt list and the other fields of the store stay as they were
C28_DeactivateChangesOnlyNamed ==
    [][\A id \in PromptIds :
        Called("setPromptActive", <<id, FALSE>>) =>
            /\ Len(store'.prompts) = Len(store.prompts)
            /\ \A i \in 1..Len(store.prompts) :
                  /\ store'.prompts[i].is_active =
                        (store.prompts[i].is_active /\ store.prompts[i].id # id)
                  /\ [store'.prompts[i] EXCEPT !.is_active = FALSE]
                        = [store.prompts[i] EXCEPT !.is_active = FALSE]
            /\ [store' EXCEPT !.prompts = <<>>] = [store EXCEPT !.prompts = <<>>]]_vars

\* C28 witness: setPromptActive(id, false) was the last call, the prompt with
\* the id is inactive and another prompt is active
C28_Witness ==
    /\ callLog # <<>>
    /\ callLog[1].action = "setPromptActive"
    /\ callLog[1].args[2] = FALSE
    /\ \E i, j \in 1..Len(store.prompts) :
          /\ store.prompts[i].id = callLog[1].args[1]
          /\ ~store.prompts[i].is_active
          /\ store.prompts[j].id # callLog[1].args[1]
          /\ store.prompts[j].is_active

\* the saved ebooks whose id is not the id, in their order
SavedOthers(state, id) == SelectSeq(state.savedEbooks, LAMBDA eb : eb.id # id)

\* C29: after saveEbook with a current ebook, savedEbooks has exactly one
\* entry with the current ebook's id, the entry is the current ebook, the
\* other entries are unchanged and in their order, and a second saveEbook
\* changes nothing
C29_SaveEbookIsIdempotentUpsert ==
    [][(Called("saveEbook", <<>>) /\ ebookStore.currentEbook # Absent) =>
        LET current == ebookStore.currentEbook[1]
            saved == ebookStore'.savedEbooks
        IN  /\ Cardinality({i \in 1..Len(saved) : saved[i].id = current.id}) = 1
            /\ \A i \in 1..Len(saved) : saved[i].id = current.id => saved[i] = current
            /\ SavedOthers(ebookStore', current.id) = SavedOthers(ebookStore, current.id)
            /\ ebookStore'.currentEbook = ebookStore.currentEbook
            /\ ebookStore'.isEditing = ebookStore.isEditing
            /\ saveEbook(ebookStore') = ebookStore']_vars

\* C29 witness: saveEbook was the last call and put the current ebook in the
\* place of the first of two saved ebooks
C29_Witness ==
    /\ callLog = <<[action |-> "saveEbook", args |-> <<>>]>>
    /\ Len(ebookStore.savedEbooks) = 2
    /\ ebookStore.currentEbook = Some(ebookStore.savedEbooks[1])
    /\ ebookStore.savedEbooks[1].metadata.title = <<"b">>

\* C30: isEditing is true exactly when there is a current ebook
C30_EditingIffCurrentEbook ==
    ebookStore.isEditing <=> ebookStore.currentEbook # Absent

====
